---- MODULE Spec2Model ----
(***************************************************************************)
(* Model of HTMLTableReaderNode (src/src/extension.py): execute and the    *)
(* helpers it calls (_table_to_dataframe, _clean_column_name,              *)
(* _convert_data_types).                                                   *)
(*                                                                         *)
(* A text is a sequence of one-character strings, so that stripping,       *)
(* sanitizing and parsing are computed character by character.  A parsed   *)
(* document is the sequence of its <table> elements in document order, a   *)
(* table the sequence of its <tr> elements, a <tr> the sequence of its     *)
(* <td>/<th> cells; a cell carries its text content and its colspan        *)
(* attribute (<<>> when absent, <<value>> when present).  Tables are not   *)
(* nested.                                                                 *)
(***************************************************************************)
EXTENDS Integers, Sequences, FiniteSets, TLC

\* document: the <table> elements of the parsed file; table_index, has_header,
\* skip_empty_rows: the node's parameters; pc: "ready", then "returned" or
\* "failed"; located: the 1-based position of the table execute took (0: none);
\* extracted, rows, normalized_rows: the rows after lines 145, 152 and 165;
\* result: the table returned; error: the exception raised; warnings: the
\* number of set_warning calls.
VARIABLES document, table_index, has_header, skip_empty_rows,
          pc, located, extracted, rows, normalized_rows, result, error, warnings

vars == <<document, table_index, has_header, skip_empty_rows,
          pc, located, extracted, rows, normalized_rows, result, error, warnings>>

(***************************************************************************)
(* Bounds of the model.                                                    *)
(***************************************************************************)
MaxTables == 2  \* <table> elements of a document
MaxRows == 2    \* <tr> elements of a table
MaxCells == 3   \* <td>/<th> elements of a table, over all its rows

(***************************************************************************)
(* Characters and texts.                                                   *)
(***************************************************************************)
Whitespace == {" ", "\t", "\n", "\r"}

DigitChars == <<"0", "1", "2", "3", "4", "5", "6", "7", "8", "9">>

IsDigit(c) == \E i \in 1..10 : DigitChars[i] = c

DigitValue(c) == (CHOOSE i \in 1..10 : DigitChars[i] = c) - 1

AllDigits(s) == Len(s) > 0 /\ \A i \in 1..Len(s) : IsDigit(s[i])

RECURSIVE DigitsValue(_)
DigitsValue(s) ==
    IF Len(s) = 0 THEN 0
    ELSE 10 * DigitsValue(SubSeq(s, 1, Len(s) - 1)) + DigitValue(s[Len(s)])

RECURSIVE Pow10(_)
Pow10(n) == IF n = 0 THEN 1 ELSE 10 * Pow10(n - 1)

RECURSIVE LStrip(_)
LStrip(s) ==
    IF Len(s) > 0 /\ s[1] \in Whitespace THEN LStrip(Tail(s)) ELSE s

RECURSIVE RStrip(_)
RStrip(s) ==
    IF Len(s) > 0 /\ s[Len(s)] \in Whitespace
    THEN RStrip(SubSeq(s, 1, Len(s) - 1)) ELSE s

\* str.strip()
Strip(s) == RStrip(LStrip(s))

\* str(n) for n >= 0
RECURSIVE IntToStr(_)
IntToStr(n) ==
    IF n < 10 THEN <<DigitChars[n + 1]>>
    ELSE IntToStr(n \div 10) \o <<DigitChars[(n % 10) + 1]>>

(***************************************************************************)
(* Values of a DataFrame cell.  Every value is a record of the same shape: *)
(* kind "str" (text s), "int" (integer m), "float" (m / 10^e), "ts"        *)
(* (timestamp, m = yyyymmdd) or "null" (NaN / <NA> / NaT).                 *)
(***************************************************************************)
StrVal(s) == [kind |-> "str", s |-> s, m |-> 0, e |-> 0]
IntVal(n) == [kind |-> "int", s |-> <<>>, m |-> n, e |-> 0]
FloatVal(m, e) == [kind |-> "float", s |-> <<>>, m |-> m, e |-> e]
TsVal(d) == [kind |-> "ts", s |-> <<>>, m |-> d, e |-> 0]
Null == [kind |-> "null", s |-> <<>>, m |-> 0, e |-> 0]

(***************************************************************************)
(* Library conversions, computed on the characters of the text.            *)
(***************************************************************************)
PointAt(s) == {i \in 1..Len(s) : s[i] = "."}

\* The decimal literal s read as a number m / 10^e: an optional sign, digits
\* with at most one decimal point and at least one digit.
ParseDecimal(s) ==
    LET signed == Len(s) > 0 /\ s[1] \in {"+", "-"}
        body == IF signed THEN Tail(s) ELSE s
        sign == IF signed /\ s[1] = "-" THEN -1 ELSE 1
        pts == PointAt(body)
    IN  IF pts = {}
        THEN IF AllDigits(body)
             THEN [ok |-> TRUE, m |-> sign * DigitsValue(body), e |-> 0]
             ELSE [ok |-> FALSE, m |-> 0, e |-> 0]
        ELSE IF Cardinality(pts) = 1
        THEN LET p == CHOOSE i \in pts : TRUE
                 ip == SubSeq(body, 1, p - 1)
                 fp == SubSeq(body, p + 1, Len(body))
             IN  IF /\ Len(ip) + Len(fp) > 0
                    /\ \A i \in 1..Len(ip) : IsDigit(ip[i])
                    /\ \A i \in 1..Len(fp) : IsDigit(fp[i])
                 THEN [ok |-> TRUE,
                       m |-> sign * (DigitsValue(ip) * Pow10(Len(fp)) + DigitsValue(fp)),
                       e |-> Len(fp)]
                 ELSE [ok |-> FALSE, m |-> 0, e |-> 0]
        ELSE [ok |-> FALSE, m |-> 0, e |-> 0]

\* int(x) of a colspan attribute value: surrounding whitespace allowed, an
\* optional sign, then digits only; anything else raises ValueError.
ParseInt(s) ==
    LET t == Strip(s)
        signed == Len(t) > 0 /\ t[1] \in {"+", "-"}
        body == IF signed THEN Tail(t) ELSE t
    IN  IF AllDigits(body)
        THEN [ok |-> TRUE,
              val |-> IF signed /\ t[1] = "-" THEN 0 - DigitsValue(body)
                      ELSE DigitsValue(body)]
        ELSE [ok |-> FALSE, val |-> 0]

\* pd.to_numeric(..., errors='coerce') on one text value: a float or NaN.
ToNumeric(s) ==
    LET d == ParseDecimal(s)
    IN  IF d.ok THEN FloatVal(d.m, d.e) ELSE Null

\* float.is_integer()
IsInteger(v) == v.m % Pow10(v.e) = 0

\* Series.astype('Int64') on one value
AsInt64(v) == IF v.kind = "null" THEN Null ELSE IntVal(v.m \div Pow10(v.e))

\* pd.to_datetime(..., errors='coerce') on one text value: an ISO date
\* yyyy-mm-dd is a timestamp, any other text is NaT.
ToDatetime(s) ==
    IF /\ Len(s) = 10
       /\ s[5] = "-" /\ s[8] = "-"
       /\ AllDigits(SubSeq(s, 1, 4))
       /\ AllDigits(SubSeq(s, 6, 7))
       /\ AllDigits(SubSeq(s, 9, 10))
       /\ DigitsValue(SubSeq(s, 6, 7)) \in 1..12
       /\ DigitsValue(SubSeq(s, 9, 10)) \in 1..31
    THEN TsVal(DigitsValue(SubSeq(s, 1, 4)) * 10000
               + DigitsValue(SubSeq(s, 6, 7)) * 100
               + DigitsValue(SubSeq(s, 9, 10)))
    ELSE Null

(***************************************************************************)
(* DataFrames: column labels, one dtype per column, and the rows.          *)
(***************************************************************************)
DataFrame(columns, dtypes, data) ==
    [columns |-> columns, dtypes |-> dtypes, data |-> data]

\* pd.DataFrame()
EmptyDataFrame == DataFrame(<<>>, <<>>, <<>>)

\* DataFrame.empty: some axis has length 0
DfEmpty(df) == Len(df.columns) = 0 \/ Len(df.data) = 0

\* The values of the column at position j, top to bottom
ColumnAt(df, j) == [i \in 1..Len(df.data) |-> df.data[i][j]]

\* The frame with the column at position j replaced
SetColumn(df, j, dtype, vals) ==
    DataFrame(df.columns,
              [df.dtypes EXCEPT ![j] = dtype],
              [i \in 1..Len(df.data) |-> [df.data[i] EXCEPT ![j] = vals[i]]])

ObjectColumns(n) == [j \in 1..n |-> "object"]

(***************************************************************************)
(* _clean_column_name                                                      *)
(***************************************************************************)
UnnamedColumn ==
    <<"U", "n", "n", "a", "m", "e", "d", "_", "C", "o", "l", "u", "m", "n">>

ColumnPrefix == <<"C", "o", "l", "u", "m", "n", "_">>

\* name.replace('\n', ' ').replace('\r', ' ').replace('\t', ' ')
ReplaceControl(s) ==
    [i \in 1..Len(s) |-> IF s[i] \in {"\n", "\r", "\t"} THEN " " ELSE s[i]]

HasDoubleSpace(s) == \E i \in 1..(Len(s) - 1) : s[i] = " " /\ s[i + 1] = " "

\* name.replace('  ', ' '): left to right, occurrences not overlapping
RECURSIVE ReplaceDoubleSpace(_)
ReplaceDoubleSpace(s) ==
    IF Len(s) < 2 THEN s
    ELSE IF s[1] = " " /\ s[2] = " "
         THEN <<" ">> \o ReplaceDoubleSpace(SubSeq(s, 3, Len(s)))
         ELSE <<s[1]>> \o ReplaceDoubleSpace(Tail(s))

\* while '  ' in name: name = name.replace('  ', ' ')
RECURSIVE CollapseSpaces(_)
CollapseSpaces(s) ==
    IF HasDoubleSpace(s) THEN CollapseSpaces(ReplaceDoubleSpace(s)) ELSE s

clean_column_name(name) ==
    LET stripped == Strip(name)
    IN  IF Len(stripped) = 0 THEN UnnamedColumn
        ELSE CollapseSpaces(ReplaceControl(stripped))


(***************************************************************************)
(* _convert_data_types                                                     *)
(***************************************************************************)
NotNull(series) == {i \in 1..Len(series) : series[i].kind # "null"}

\* pd.to_numeric(errors='coerce') raises TypeError only for a value that is
\* neither a text nor a number; every other value is coerced.
ToNumericRaises(series) ==
    \E i \in 1..Len(series) : series[i].kind \notin {"str", "int", "float", "null"}

ToNumericSeries(series) == [i \in 1..Len(series) |-> ToNumeric(series[i].s)]

ToDatetimeSeries(series) == [i \in 1..Len(series) |-> ToDatetime(series[i].s)]

AsInt64Series(series) == [i \in 1..Len(series) |-> AsInt64(series[i])]

\* lines 215-219: the column becomes numeric when some value is a number
KeepNumeric(df, j, numeric_series) ==
    IF NotNull(numeric_series) # {}
    THEN IF \A i \in NotNull(numeric_series) : IsInteger(numeric_series[i])
         THEN SetColumn(df, j, "Int64", AsInt64Series(numeric_series))
         ELSE SetColumn(df, j, "float64", numeric_series)
    ELSE df

\* lines 224-227: the column becomes a timestamp when more than half parse
KeepDatetime(df, j, datetime_series) ==
    IF 2 * Cardinality(NotNull(datetime_series)) > Len(df.data)
    THEN SetColumn(df, j, "datetime64", datetime_series)
    ELSE df

\* The try/except of lines 210-230 for the series of the column at position
\* j: the except branch runs only when the numeric conversion raises.
ConvertSeries(df, j, series) ==
    IF ToNumericRaises(series)
    THEN KeepDatetime(df, j, ToDatetimeSeries(series))
    ELSE KeepNumeric(df, j, ToNumericSeries(series))

\* The body of the loop for the column at position j (lines 209-230).
ConvertColumn(df, j) == ConvertSeries(df, j, ColumnAt(df, j))

\* df[col] is the one column labelled col, or a DataFrame when several
\* columns carry the label; a DataFrame has no attribute dtype.
LabelPositions(df, col) == {k \in 1..Len(df.columns) : df.columns[k] = col}

\* for col in df.columns, from position j on
RECURSIVE ConvertFrom(_, _)
ConvertFrom(df, j) ==
    IF j > Len(df.columns) THEN [exc |-> "none", df |-> df]
    ELSE IF Cardinality(LabelPositions(df, df.columns[j])) > 1
         THEN [exc |-> "AttributeError", df |-> df]
         ELSE IF df.dtypes[j] # "object"
              THEN ConvertFrom(df, j + 1)
              ELSE ConvertFrom(ConvertColumn(df, j), j + 1)

convert_data_types(df) == ConvertFrom(df, 1)

(***************************************************************************)
(* _table_to_dataframe                                                     *)
(***************************************************************************)
Repeat(x, n) == [i \in 1..n |-> x]

\* cell.get_text(strip=True) of a cell holding one text node
GetText(cell) == Strip(cell.text)

\* int(cell.get('colspan', 1))
Colspan(cell) ==
    IF cell.colspan = <<>> THEN [ok |-> TRUE, val |-> 1]
    ELSE ParseInt(cell.colspan[1])

\* The inner loop (lines 135-142): row_data of one <tr>, or the ValueError of
\* the first cell whose colspan int() rejects.
RECURSIVE RowData(_)
RowData(tr) ==
    IF Len(tr) = 0 THEN [ok |-> TRUE, row |-> <<>>]
    ELSE LET colspan == Colspan(tr[1])
         IN  IF ~colspan.ok THEN [ok |-> FALSE, row |-> <<>>]
             ELSE LET rest == RowData(Tail(tr))
                  IN  IF ~rest.ok THEN rest
                      ELSE [ok |-> TRUE,
                            row |-> Repeat(GetText(tr[1]), colspan.val) \o rest.row]

\* The outer loop (lines 131-145): only rows with at least one cell are added.
RECURSIVE ExtractRows(_)
ExtractRows(table) ==
    IF Len(table) = 0 THEN [ok |-> TRUE, rows |-> <<>>]
    ELSE LET first == RowData(table[1])
         IN  IF ~first.ok THEN [ok |-> FALSE, rows |-> <<>>]
             ELSE LET rest == ExtractRows(Tail(table))
                  IN  IF ~rest.ok THEN rest
                      ELSE [ok |-> TRUE,
                            rows |-> IF Len(first.row) > 0
                                     THEN <<first.row>> \o rest.rows
                                     ELSE rest.rows]

\* any(cell.strip() for cell in row)
AnyCell(row) == \E i \in 1..Len(row) : Len(Strip(row[i])) > 0

\* Mutant of SkipEmptyRows: the rows are filtered whatever skip_empty_rows is.
SkipEmptyRows_always(rs, skip) == SelectSeq(rs, AnyCell)

\* rows = [row for row in rows if any(...)] when skip_empty_rows (lines 151-152)
SkipEmptyRows(rs, skip) ==
    IF skip THEN SelectSeq(rs, AnyCell) ELSE rs

\* max(len(row) for row in rows)
MaxCols(rs) ==
    CHOOSE n \in {Len(rs[i]) : i \in 1..Len(rs)} :
        \A i \in 1..Len(rs) : Len(rs[i]) <= n

\* Mutant of PadRow: short rows are left short.
PadRow_none(row, max_cols) == row

\* while len(row) < max_cols: row.append('')
PadRow(row, max_cols) ==
    IF Len(row) < max_cols THEN row \o Repeat(<<>>, max_cols - Len(row)) ELSE row

\* row[:max_cols]
Truncate(row, max_cols) ==
    SubSeq(row, 1, IF Len(row) < max_cols THEN Len(row) ELSE max_cols)

\* lines 158-165
NormalizeRows(rs) ==
    LET max_cols == MaxCols(rs)
    IN  [i \in 1..Len(rs) |-> Truncate(PadRow(rs[i], max_cols), max_cols)]

StrRow(row) == [j \in 1..Len(row) |-> StrVal(row[j])]

\* pd.DataFrame(normalized_rows[1:], columns=normalized_rows[0]) with the
\* column names cleaned (lines 170-173)
HeaderFrame(grid) ==
    DataFrame([j \in 1..Len(grid[1]) |-> clean_column_name(grid[1][j])],
              ObjectColumns(Len(grid[1])),
              [i \in 1..(Len(grid) - 1) |-> StrRow(grid[i + 1])])

\* pd.DataFrame(normalized_rows) with generic column names (lines 176-177)
GenericFrame(grid) ==
    DataFrame([j \in 1..Len(grid[1]) |-> ColumnPrefix \o IntToStr(j)],
              ObjectColumns(Len(grid[1])),
              [i \in 1..Len(grid) |-> StrRow(grid[i])])

NoFrame(exc, ex, rs, grid) ==
    [exc |-> exc, extracted |-> ex, rows |-> rs, normalized_rows |-> grid,
     df |-> EmptyDataFrame]

\* lines 180-182, with the exception convert_data_types may raise
Typed(ex, rs, grid, typed) ==
    [exc |-> typed.exc, extracted |-> ex, rows |-> rs, normalized_rows |-> grid,
     df |-> IF typed.exc = "none" THEN typed.df ELSE EmptyDataFrame]

\* lines 168-177
CreateFrame(grid, header) ==
    IF header /\ Len(grid) > 0 THEN HeaderFrame(grid) ELSE GenericFrame(grid)

\* lines 154-182
FromRows(ex, rs, header) ==
    IF Len(rs) = 0 THEN NoFrame("none", ex, rs, <<>>)
    ELSE Typed(ex, rs, NormalizeRows(rs),
               convert_data_types(CreateFrame(NormalizeRows(rs), header)))

\* lines 147-182
FromExtracted(ex, header, skip) ==
    IF ~ex.ok THEN NoFrame("ValueError", <<>>, <<>>, <<>>)
    ELSE IF Len(ex.rows) = 0 THEN NoFrame("none", ex.rows, <<>>, <<>>)
    ELSE FromRows(ex.rows, SkipEmptyRows(ex.rows, skip), header)

table_to_dataframe(table, header, skip) ==
    FromExtracted(ExtractRows(table), header, skip)

(***************************************************************************)
(* execute                                                                 *)
(***************************************************************************)
NoError == [raised |-> FALSE, cause |-> "none", index |-> 0, count |-> 0]

\* RuntimeError("Failed to read HTML table: " + str(e)); index and count are
\* the numbers the message of e carries.
RuntimeError(cause, index, count) ==
    [raised |-> TRUE, cause |-> cause, index |-> index, count |-> count]

\* pd.DataFrame({'Column_1': []})
Placeholder == DataFrame(<<ColumnPrefix \o IntToStr(1)>>, <<"object">>, <<>>)

Outcome(loc, t2d, res, err, warn) ==
    [located |-> loc, extracted |-> t2d.extracted, rows |-> t2d.rows,
     normalized_rows |-> t2d.normalized_rows, result |-> res, error |-> err,
     warnings |-> warn]

Nothing == NoFrame("none", <<>>, <<>>, <<>>)

\* Mutant of Finish: an empty frame is returned as it is, without warning.
Finish_no_placeholder(loc, t2d) ==
    IF t2d.exc # "none"
    THEN Outcome(loc, t2d, EmptyDataFrame, RuntimeError(t2d.exc, 0, 0), 0)
    ELSE Outcome(loc, t2d, t2d.df, NoError, 0)

\* lines 111-124, t2d being what _table_to_dataframe returned or raised
Finish(loc, t2d) ==
    IF t2d.exc # "none"
    THEN Outcome(loc, t2d, EmptyDataFrame, RuntimeError(t2d.exc, 0, 0), 0)
    ELSE IF DfEmpty(t2d.df)
         THEN Outcome(loc, t2d, Placeholder, NoError, 1)
         ELSE Outcome(loc, t2d, t2d.df, NoError, 0)

\* Mutant of execute: the first table is extracted whatever the index is.
execute_first_table(tables, index, header, skip) ==
    IF Len(tables) = 0
    THEN Outcome(0, Nothing, EmptyDataFrame, RuntimeError("NoTablesFound", 0, 0), 0)
    ELSE IF index >= Len(tables)
    THEN Outcome(0, Nothing, EmptyDataFrame,
                 RuntimeError("TableIndexNotFound", index, Len(tables)), 0)
    ELSE Finish(1, table_to_dataframe(tables[1], header, skip))

execute(tables, index, header, skip) ==
    IF Len(tables) = 0
    THEN Outcome(0, Nothing, EmptyDataFrame, RuntimeError("NoTablesFound", 0, 0), 0)
    ELSE IF index >= Len(tables)
    THEN Outcome(0, Nothing, EmptyDataFrame,
                 RuntimeError("TableIndexNotFound", index, Len(tables)), 0)
    ELSE Finish(index + 1, table_to_dataframe(tables[index + 1], header, skip))

(***************************************************************************)
(* The inputs: file contents as parsed by BeautifulSoup.                   *)
(***************************************************************************)
Blank == <<" ">>
Label == <<"Q", " ", "\t", "y">>
Whole == <<"1", "5">>
Fraction == <<"1", ".", "5">>
Date == <<"2", "0", "2", "4", "-", "0", "1", "-", "1", "5">>

Texts == {Blank, Label, Whole, Fraction, Date}

Cell(text, colspan) == [text |-> text, colspan |-> colspan]

\* <td>text</td>, and cells with a colspan of 2, of 0 and of no integer
Cells ==
    {Cell(t, <<>>) : t \in Texts}
        \cup {Cell(Label, << <<"2">> >>), Cell(Blank, << <<"2">> >>),
              Cell(Label, << <<"0">> >>), Cell(Label, << <<"x">> >>)}

\* The numbers of cells of the rows of a table: at most MaxRows rows and
\* MaxCells cells in all
RECURSIVE Sum(_)
Sum(ns) == IF Len(ns) = 0 THEN 0 ELSE ns[1] + Sum(Tail(ns))

Shapes ==
    {ns \in UNION {[1..n -> 0..MaxCells] : n \in 0..MaxRows} : Sum(ns) <= MaxCells}

\* The table whose rows have the lengths of shape and hold cells in order
RECURSIVE TableOf(_, _)
TableOf(shape, cells) ==
    IF Len(shape) = 0 THEN <<>>
    ELSE <<SubSeq(cells, 1, shape[1])>>
             \o TableOf(Tail(shape), SubSeq(cells, shape[1] + 1, Len(cells)))

\* The tables of at most one cell
SmallTables == {<<>>} \cup {<<<<c>>>> : c \in Cells}

\* The documents of zero to MaxTables tables of at most one cell each
LocateDocuments == UNION {[1..n -> SmallTables] : n \in 0..MaxTables}

(***************************************************************************)
(* The state machine: a configured node, then one execute.                 *)
(***************************************************************************)
Fresh ==
    /\ pc = "ready"
    /\ located = 0
    /\ extracted = <<>>
    /\ rows = <<>>
    /\ normalized_rows = <<>>
    /\ result = EmptyDataFrame
    /\ error = NoError
    /\ warnings = 0

\* A node left at table_index = 0 (the default) over a file of one table
Init ==
    /\ \E shape \in Shapes : \E cells \in [1..Sum(shape) -> Cells] :
           document = <<TableOf(shape, cells)>>
    /\ table_index = 0
    /\ has_header \in BOOLEAN
    /\ skip_empty_rows \in BOOLEAN
    /\ Fresh

\* A node with any table_index over a file of zero to MaxTables small tables
InitLocate ==
    /\ document \in LocateDocuments
    /\ table_index \in 0..MaxTables
    /\ has_header \in BOOLEAN
    /\ skip_empty_rows \in BOOLEAN
    /\ Fresh

\* What one execute leaves behind
Return(out) ==
    /\ located' = out.located
    /\ extracted' = out.extracted
    /\ rows' = out.rows
    /\ normalized_rows' = out.normalized_rows
    /\ result' = out.result
    /\ error' = out.error
    /\ warnings' = out.warnings
    /\ pc' = IF out.error.raised THEN "failed" ELSE "returned"

Execute ==
    /\ pc = "ready"
    /\ Return(execute(document, table_index, has_header, skip_empty_rows))
    /\ UNCHANGED <<document, table_index, has_header, skip_empty_rows>>

Next == Execute

Spec == Init /\ [][Next]_vars

SpecLocate == InitLocate /\ [][Next]_vars

(***************************************************************************)
(* Vocabulary of the properties.                                           *)
(***************************************************************************)
Done == pc # "ready"

\* A table was located and its extraction did not raise
Extracted == Done /\ located > 0 /\ error.cause # "ValueError"

\* The grid rows that become data rows
DataGrid ==
    IF has_header /\ Len(normalized_rows) > 0
    THEN Tail(normalized_rows) ELSE normalized_rows

\* The texts of the data rows at column j, top to bottom
SourceColumn(j) == [i \in 1..Len(DataGrid) |-> DataGrid[i][j]]

Numbers(col) == {i \in 1..Len(col) : ParseDecimal(col[i]).ok}

Dates(col) == {i \in 1..Len(col) : ToDatetime(col[i]).kind = "ts"}

WholeNumber(s) == ParseDecimal(s).m % Pow10(ParseDecimal(s).e) = 0

HasRepeat(seq) == \E i, j \in 1..Len(seq) : i # j /\ seq[i] = seq[j]

CleanedHeader ==
    [j \in 1..Len(normalized_rows[1]) |-> clean_column_name(normalized_rows[1][j])]

GenericNames(n) == [j \in 1..n |-> ColumnPrefix \o IntToStr(j)]

\* The elements of seq at the positions in keep, in order
RECURSIVE Pick(_, _, _)
Pick(seq, keep, i) ==
    IF i > Len(seq) THEN <<>>
    ELSE (IF i \in keep THEN <<seq[i]>> ELSE <<>>) \o Pick(seq, keep, i + 1)

\* The table execute was asked for
Asked == document[table_index + 1]

\* Every <tr> of the located table after column-span expansion
Expanded == [i \in 1..Len(document[located]) |-> RowData(document[located][i]).row]

NonBlank(row) == \E j \in 1..Len(row) : Strip(row[j]) # <<>>

Width(rs) == {Len(rs[i]) : i \in 1..Len(rs)}

(***************************************************************************)
(* C1.  With has_header = false and at least one extracted row, execute    *)
(* returns columns Column_1..Column_N, every grid row is a data row, and   *)
(* the first data row holds the texts of the first row as strings, in      *)
(* every column.  Stated for first rows of which every cell is a text that *)
(* is not empty and not a number (a header row).                           *)
(***************************************************************************)
C1_HeaderRoundTrip ==
    (/\ Done /\ ~has_header /\ Len(rows) > 0
     /\ Numbers(rows[1]) = {} /\ \A j \in 1..Len(rows[1]) : rows[1][j] # <<>>) =>
        /\ pc = "returned"
        /\ result.columns = GenericNames(Len(normalized_rows[1]))
        /\ Len(result.data) = Len(normalized_rows)
        /\ \A j \in 1..Len(rows[1]) : result.data[1][j] = StrVal(rows[1][j])

(***************************************************************************)
(* C2.  With has_header = true, a grid of exactly one row gives a result   *)
(* of zero data rows that keeps the named columns taken from that row.     *)
(***************************************************************************)
C2_HeaderOnlyKeepsNames ==
    (pc = "returned" /\ has_header /\ Len(normalized_rows) = 1) =>
        /\ result.columns = CleanedHeader
        /\ Len(result.data) = 0

(***************************************************************************)
(* C3.  A column without any numeric value becomes a timestamp column      *)
(* exactly when more than half of its values parse as timestamps, and      *)
(* otherwise keeps its strings.                                            *)
(***************************************************************************)
C3_TimestampOverHalf ==
    (pc = "returned" /\ warnings = 0) =>
        \A j \in 1..Len(result.columns) :
            Numbers(SourceColumn(j)) = {} =>
                IF 2 * Cardinality(Dates(SourceColumn(j))) > Len(DataGrid)
                THEN /\ result.dtypes[j] = "datetime64"
                     /\ \A i \in 1..Len(DataGrid) :
                            result.data[i][j] = ToDatetime(DataGrid[i][j])
                ELSE /\ result.dtypes[j] = "object"
                     /\ \A i \in 1..Len(DataGrid) :
                            result.data[i][j] = StrVal(DataGrid[i][j])

(***************************************************************************)
(* C4.  Every column of the data rows is typed on its own values: with a   *)
(* number among them it is Int64 when all its numbers are whole and        *)
(* float64 otherwise, the other values null; all empty, it stays text.     *)
(***************************************************************************)
C4_NumericColumns ==
    (Done /\ Len(DataGrid) > 0) =>
        /\ pc = "returned"
        /\ \A j \in 1..Len(DataGrid[1]) :
            LET col == SourceColumn(j)
            IN  IF Numbers(col) # {}
                THEN IF \A i \in Numbers(col) : WholeNumber(col[i])
                     THEN /\ result.dtypes[j] = "Int64"
                          /\ \A i \in 1..Len(col) :
                               result.data[i][j] =
                                 IF i \in Numbers(col)
                                 THEN IntVal(ParseDecimal(col[i]).m
                                             \div Pow10(ParseDecimal(col[i]).e))
                                 ELSE Null
                     ELSE /\ result.dtypes[j] = "float64"
                          /\ \A i \in 1..Len(col) :
                               result.data[i][j] =
                                 IF i \in Numbers(col)
                                 THEN FloatVal(ParseDecimal(col[i]).m,
                                               ParseDecimal(col[i]).e)
                                 ELSE Null
                ELSE (\A i \in 1..Len(col) : col[i] = <<>>) =>
                        /\ result.dtypes[j] = "object"
                        /\ \A i \in 1..Len(col) : result.data[i][j] = StrVal(<<>>)

(***************************************************************************)
(* C5.  The locator fails with the no-tables error on a document without   *)
(* tables, with the index error carrying the index and the table count     *)
(* when the index is not below the count, and otherwise raises neither     *)
(* and extracts the table at position table_index.                         *)
(***************************************************************************)
C5_TableLocator ==
    Done =>
        /\ Len(document) = 0 => error = RuntimeError("NoTablesFound", 0, 0)
        /\ (Len(document) > 0 /\ table_index >= Len(document)) =>
               error = RuntimeError("TableIndexNotFound", table_index, Len(document))
        /\ table_index < Len(document) =>
               /\ error.cause \notin {"NoTablesFound", "TableIndexNotFound"}
               /\ located = table_index + 1
               /\ extracted = ExtractRows(Asked).rows

C5_Witness ==
    /\ pc = "returned"
    /\ Len(document) = 2
    /\ table_index = 1
    /\ document[1] # document[2]
    /\ Len(extracted) > 0

(***************************************************************************)
(* C6.  An extraction that yields no usable row does not fail: execute     *)
(* gives one warning and a table of one column and zero rows; and no       *)
(* returned table has zero columns.                                        *)
(***************************************************************************)
C6_EmptyPlaceholder ==
    /\ (Extracted /\ Len(rows) = 0) =>
           /\ pc = "returned"
           /\ warnings = 1
           /\ Len(result.columns) = 1
           /\ Len(result.data) = 0
    /\ pc = "returned" => Len(result.columns) >= 1

C6_Witness ==
    /\ pc = "returned"
    /\ skip_empty_rows
    /\ Len(extracted) > 0
    /\ Len(rows) = 0
    /\ warnings = 1

(***************************************************************************)
(* C7.  With has_header = true and a repeated name in the sanitized row 0, *)
(* execute completes and the column names are the sanitized cells of row   *)
(* 0, repeats retained.                                                    *)
(***************************************************************************)
C7_RepeatedNamesNotFatal ==
    (Done /\ has_header /\ Len(normalized_rows) > 0 /\ HasRepeat(CleanedHeader)) =>
        /\ pc = "returned"
        /\ Len(DataGrid) > 0 => result.columns = CleanedHeader

(***************************************************************************)
(* C8.  Every cell contributes its stripped text to its row as many times  *)
(* as its colspan says, once when the colspan is absent or is no integer,  *)
(* and a colspan that is no integer never makes the extraction fail.       *)
(***************************************************************************)
ClaimedSpan(cell) ==
    IF cell.colspan = <<>> \/ ~ParseInt(cell.colspan[1]).ok THEN 1
    ELSE ParseInt(cell.colspan[1]).val

RECURSIVE ClaimedRow(_)
ClaimedRow(tr) ==
    IF Len(tr) = 0 THEN <<>>
    ELSE [i \in 1..ClaimedSpan(tr[1]) |-> Strip(tr[1].text)] \o ClaimedRow(Tail(tr))

C8_ColspanExpansion ==
    (Done /\ located > 0) =>
        /\ error.cause # "ValueError"
        /\ extracted =
             Pick([i \in 1..Len(Asked) |-> ClaimedRow(Asked[i])],
                  {i \in 1..Len(Asked) : Len(ClaimedRow(Asked[i])) > 0}, 1)

(***************************************************************************)
(* C9.  The grid has the rows of the filtered row sequence, in order, each *)
(* of exactly max_cols cells: the row's own cells followed by empty        *)
(* strings, max_cols being the greatest row length.                        *)
(***************************************************************************)
C9_GridInvariant ==
    (Done /\ Len(rows) > 0) =>
        /\ Len(normalized_rows) = Len(rows)
        /\ \E n \in Width(rows) :
            /\ \A k \in Width(rows) : k <= n
            /\ \A i \in 1..Len(rows) :
                /\ Len(normalized_rows[i]) = n
                /\ SubSeq(normalized_rows[i], 1, Len(rows[i])) = rows[i]
                /\ \A j \in (Len(rows[i]) + 1)..n : normalized_rows[i][j] = <<>>

C9_Witness ==
    /\ Done
    /\ Len(rows) > 1
    /\ \E i \in 1..Len(rows) : Len(rows[i]) < Len(normalized_rows[i])

(***************************************************************************)
(* C10.  Rows without cells are dropped whatever the configuration; then,  *)
(* only with skip_empty_rows, the rows whose cells are all empty after     *)
(* expansion are dropped; the other rows are kept in order, and max_cols   *)
(* is taken over the rows that are kept.                                   *)
(***************************************************************************)
C10_RowFiltering ==
    Extracted =>
        \A trs \in {Expanded} :
            /\ extracted = Pick(trs, {i \in 1..Len(trs) : Len(trs[i]) > 0}, 1)
            /\ rows = Pick(trs,
                           {i \in 1..Len(trs) :
                                /\ Len(trs[i]) > 0
                                /\ skip_empty_rows => NonBlank(trs[i])}, 1)
            /\ Len(rows) > 0 =>
                   /\ Len(normalized_rows[1]) \in Width(rows)
                   /\ \A k \in Width(rows) : k <= Len(normalized_rows[1])

C10_Witness ==
    /\ Extracted
    /\ skip_empty_rows
    /\ Len(rows) > 0
    /\ \E i \in 1..Len(extracted) :
        /\ ~NonBlank(extracted[i])
        /\ Len(extracted[i]) > Len(normalized_rows[1])


====
